---- MODULE Spec2Model ----
(***************************************************************************)
(* TrustyKeymasterDevice (trusty/keymaster/trusty_keymaster_device.cpp):   *)
(* the constructor, the twelve keymaster2 operations and Send, with the    *)
(* transport (trusty_keymaster_connect / trusty_keymaster_call), the       *)
(* response decoder and MessageVersion as the environment.                 *)
(***************************************************************************)
EXTENDS Integers, Sequences, FiniteSets, TLC

(* ---------------- bounds of the model ---------------- *)

\* operation calls made on one instance after its construction
MaxOps == 2
\* largest errno magnitude fed to translate_error in SpecTranslate
MaxErrno == 130
\* how far past SEND_BUF_SIZE the directly driven requests of SpecSend go
MaxOver == 2
\* the import lines of one file
MaxLines == 2
\* the imports queued in one run of the parser, all files together
MaxImports == 3
\* the threads that call one device
NThreads == 2

(* ---------------- program constants ---------------- *)

PAGE_SIZE == 4096
SizeofKeymasterMessage == 4
TipcHeader == 16
RECV_BUF_SIZE == PAGE_SIZE
SEND_BUF_SIZE == PAGE_SIZE - SizeofKeymasterMessage - TipcHeader

EPERM == 1
EIO == 5
ENOMEM == 12
EACCES == 13
EBUSY == 16
ENODEV == 19
EOVERFLOW == 75
ECANCELED == 125

KM_ERROR_OK == 0
KM_ERROR_INVALID_INPUT_LENGTH == -21
KM_ERROR_INVALID_ARGUMENT == -38
KM_ERROR_UNEXPECTED_NULL_POINTER == -39
KM_ERROR_MEMORY_ALLOCATION_FAILED == -41
KM_ERROR_SECURE_HW_ACCESS_DENIED == -46
KM_ERROR_OPERATION_CANCELLED == -47
KM_ERROR_SECURE_HW_BUSY == -48
KM_ERROR_SECURE_HW_COMMUNICATION_FAILED == -49
KM_ERROR_UNIMPLEMENTED == -100
KM_ERROR_VERSION_MISMATCH == -101
KM_ERROR_UNKNOWN_ERROR == -1000

\* command identifiers passed to Send
KM_GET_VERSION == "KM_GET_VERSION"
KM_CONFIGURE == "KM_CONFIGURE"

TAG_OS_VERSION == "TAG_OS_VERSION"
TAG_OS_PATCHLEVEL == "TAG_OS_PATCHLEVEL"

\* a keymaster_key_param_set_t* argument: a null pointer, or a parameter set
\* given by the tags present in it and their values
NULL == [null |-> TRUE, tags |-> << >>]
\* a pointer argument that is not null
PRESENT == [null |-> FALSE, tags |-> << >>]
\* an out-parameter the operation has not stored to
UNWRITTEN == "UNWRITTEN"
\* the value of a member the constructor has not assigned
UNSET == "UNSET"

(* ---------------- state ---------------- *)

VARIABLES
    pc,                 \* "new", "in_call", "ready", "closed", "translate", "translated"
    who,                \* the caller a pending Send returns to
    error_,             \* TrustyKeymasterDevice::error_
    message_version_,   \* TrustyKeymasterDevice::message_version_
    connects,           \* trusty_keymaster_connect invocations
    disconnects,        \* trusty_keymaster_disconnect invocations
    calls,              \* trusty_keymaster_call invocations made by the last operation
    nops,               \* operations called on the instance
    command,            \* Send: command
    req_size,           \* Send: req_size
    in_size,            \* the in_size trusty_keymaster_call was given
    send_buf,           \* Send: the memory of send_buf
    recv_buf,           \* Send: the memory of recv_buf
    rsp_size,           \* Send: rsp_size
    ctor_rc,            \* constructor: rc of trusty_keymaster_connect
    rc,                 \* Send: rc of trusty_keymaster_call
    decoded,            \* what rsp->Deserialize returned
    rsp_error,          \* rsp->error after Deserialize
    send_exit,          \* the exit path the last Send took
    send_ret,           \* the value the last Send returned
    ctor_send,          \* the value Send returned to the constructor
    mv_called,          \* the constructor reached MessageVersion
    last_op,            \* the operation called last
    op_arg,             \* the pointer argument the last operation was called with
    operation_handle,   \* the caller's *operation_handle as the last operation left it
    ret,                \* the value the last operation returned
    imports_,           \* ImportParser::imports_: the (path, line) pairs pending
    filename_,          \* ImportParser::filename_
    frames,             \* the ParseConfig calls in progress, outermost first
    parsed,             \* what the last ParseSection returned and left in *err
    attempts,           \* the ParseConfig calls EndFile has made, in order
    ilog,               \* the lines EndFile has logged, in order
    finished,           \* the last EndFile to return: its list and its calls
    directives,         \* the import directives ParseSection has accepted, in order
    discipline,         \* whether the callers of a shared instance take turns
    mutex,              \* the caller whose turn it is, or 0
    tpc,                \* each caller: "idle", or "in_call" inside trusty_keymaster_call
    tnops,              \* each caller: the operations it has called
    tret,               \* each caller: what its last operation returned
    inflight            \* the trusty_keymaster_call invocations that have not returned

\* the variables of the import parser
importVars == <<imports_, filename_, frames, parsed, attempts, ilog, finished, directives>>

\* the variables of the callers that share one device
concVars == <<discipline, mutex, tpc, tnops, tret, inflight>>

\* the variables of the keymaster device
deviceVars == <<pc, who, error_, message_version_, connects, disconnects, calls, nops,
          command, req_size, in_size, send_buf, recv_buf, rsp_size, ctor_rc, rc, decoded,
          rsp_error, send_exit, send_ret, ctor_send, mv_called, last_op, op_arg,
          operation_handle, ret>>

vars == <<deviceVars, importVars, concVars>>

(* ---------------- translate_error ---------------- *)

\* translate_error without its case -EACCES
translate_error_no_eacces(err) ==
    CASE err = 0 -> KM_ERROR_OK
      [] err = -EPERM -> KM_ERROR_SECURE_HW_ACCESS_DENIED
      [] err = -ECANCELED -> KM_ERROR_OPERATION_CANCELLED
      [] err = -ENODEV -> KM_ERROR_UNIMPLEMENTED
      [] err = -ENOMEM -> KM_ERROR_MEMORY_ALLOCATION_FAILED
      [] err = -EBUSY -> KM_ERROR_SECURE_HW_BUSY
      [] err = -EIO -> KM_ERROR_SECURE_HW_COMMUNICATION_FAILED
      [] err = -EOVERFLOW -> KM_ERROR_INVALID_INPUT_LENGTH
      [] OTHER -> KM_ERROR_UNKNOWN_ERROR

translate_error(err) ==
    CASE err = 0 -> KM_ERROR_OK
      [] err = -EPERM \/ err = -EACCES -> KM_ERROR_SECURE_HW_ACCESS_DENIED
      [] err = -ECANCELED -> KM_ERROR_OPERATION_CANCELLED
      [] err = -ENODEV -> KM_ERROR_UNIMPLEMENTED
      [] err = -ENOMEM -> KM_ERROR_MEMORY_ALLOCATION_FAILED
      [] err = -EBUSY -> KM_ERROR_SECURE_HW_BUSY
      [] err = -EIO -> KM_ERROR_SECURE_HW_COMMUNICATION_FAILED
      [] err = -EOVERFLOW -> KM_ERROR_INVALID_INPUT_LENGTH
      [] OTHER -> KM_ERROR_UNKNOWN_ERROR

(* ---------------- environment: what the collaborators can answer ---------------- *)

\* contents an uninitialised stack array can hold
GarbageBytes == {0, 165}
\* codes trusty_keymaster_connect and trusty_keymaster_call return on failure
FailureRcs == {-EBUSY, -ENODEV, -EIO, -22}
\* codes they return on success
SuccessRcs == {0, 12}
\* response sizes trusty_keymaster_call reports in *out_size
RspSizes == {0, 4, RECV_BUF_SIZE}
\* status codes the remote service embeds in a response
RemoteErrors == {KM_ERROR_OK, KM_ERROR_OPERATION_CANCELLED, KM_ERROR_INVALID_ARGUMENT,
                 KM_ERROR_UNIMPLEMENTED, KM_ERROR_UNKNOWN_ERROR, 7}
\* what MessageVersion answers for the reported (major, minor, subminor)
MessageVersions == {-1, 0, 3}
\* values of the OS version and patch level tags
OsValues == {513, 201705}

(* ---------------- memory ---------------- *)

\* A byte range (a buffer, a serialized request) is held as its runs of equal
\* bytes, in order: <<[len |-> 8, byte |-> 1], [len |-> 4068, byte |-> 0]>>.
Run(n, b) == [len |-> n, byte |-> b]

Min(a, b) == IF a < b THEN a ELSE b

RECURSIVE Size(_)
\* the number of bytes of m
Size(m) == IF m = << >> THEN 0 ELSE Head(m).len + Size(Tail(m))

RECURSIVE Normalize(_)
\* m with empty runs dropped and neighbouring runs of one byte merged
Normalize(m) ==
    IF m = << >> THEN << >>
    ELSE IF Head(m).len = 0 THEN Normalize(Tail(m))
    ELSE LET rest == Normalize(Tail(m))
         IN  IF rest # << >> /\ Head(rest).byte = Head(m).byte
             THEN <<Run(Head(m).len + Head(rest).len, Head(m).byte)>> \o Tail(rest)
             ELSE <<Head(m)>> \o rest

RECURSIVE Skip(_, _)
\* m without its first n bytes
Skip(m, n) ==
    IF m = << >> \/ n = 0 THEN m
    ELSE IF Head(m).len <= n THEN Skip(Tail(m), n - Head(m).len)
    ELSE <<Run(Head(m).len - n, Head(m).byte)>> \o Tail(m)

RECURSIVE Take(_, _)
\* the first n bytes of m
Take(m, n) ==
    IF m = << >> \/ n = 0 THEN << >>
    ELSE IF Head(m).len <= n THEN <<Head(m)>> \o Take(Tail(m), n - Head(m).len)
    ELSE <<Run(n, Head(m).byte)>>

\* n bytes b
Fill(n, b) == Normalize(<<Run(n, b)>>)

\* buf with its first n bytes replaced by the first n bytes of data; nothing
\* is stored past the end of buf
Store(buf, data, n) ==
    LET k == Min(n, Size(buf))
    IN  Normalize(Take(data, k) \o Skip(buf, k))

\* every byte of buf, which has cap bytes, is zero
AllZero(buf, cap) ==
    /\ Size(buf) = cap
    /\ \A i \in DOMAIN buf : buf[i].byte = 0

(* ---------------- requests and buffers ---------------- *)

\* the four little-endian bytes of a uint32
Uint32Bytes(v) ==
    << Run(1, v % 256), Run(1, (v \div 256) % 256),
       Run(1, (v \div 65536) % 256), Run(1, (v \div 16777216) % 256) >>

\* the serialized form of a GetVersionRequest: it has no fields
GetVersionRequest == << >>

\* the serialized form of a ConfigureRequest: os_version, os_patchlevel
ConfigureRequest(os_version, os_patchlevel) ==
    Normalize(Uint32Bytes(os_version) \o Uint32Bytes(os_patchlevel))

\* req.SerializedSize(); every request of the model is far shorter than 2^32
\* bytes, so the uint32_t req_size holds it exactly
SerializedSize(req) == Size(req)

\* uint8_t buf[cap], not initialised
StackArray(cap, garbage) == Fill(cap, garbage)

\* req.Serialize(buf, buf + size)
Serialize(buf, req, size) == Store(buf, req, size)

\* ~Eraser(): the first size bytes of buf are overwritten with zero
Eraser(buf, size) == Store(buf, Fill(size, 0), size)

\* an Eraser for send_buf that covers the serialized request only
send_buf_eraser_used(buf) == Eraser(buf, req_size)

\* the Eraser declared for send_buf
send_buf_eraser(buf) == Eraser(buf, SEND_BUF_SIZE)

\* the Eraser declared for recv_buf
recv_buf_eraser(buf) == Eraser(buf, RECV_BUF_SIZE)

\* trusty_keymaster_call stores a message of n payload bytes in out, which has
\* RECV_BUF_SIZE bytes
TransportWrite(buf, n) ==
    Store(buf, Fill(SizeofKeymasterMessage + n, 255), SizeofKeymasterMessage + n)

\* Send, lines 388-389: the offset in recv_buf of msg->payload, where the
\* range handed to Deserialize begins
DecodeBegin == SizeofKeymasterMessage

\* Send, line 390: the offset in recv_buf of p + rsp_size, where the range
\* handed to Deserialize ends
DecodeEnd(size) == DecodeBegin + size

(* ---------------- the callers' code after Send ---------------- *)

\* a version query rejected only when answered with invalid-argument
VersionQueryRejected_invalid_only(e) == e = KM_ERROR_INVALID_ARGUMENT

\* constructor, line 120: the version query itself was rejected
VersionQueryRejected(e) ==
    e = KM_ERROR_INVALID_ARGUMENT \/ e = KM_ERROR_UNIMPLEMENTED

\* a constructor that takes every answer of MessageVersion for a version
Unrepresentable_never(mv) == FALSE

\* constructor, line 126: the answers of MessageVersion that are no version
Unrepresentable(mv) == mv < 0

\* constructor, lines 119-132, given what Send returned
CtorAfterSend(result) ==
    /\ ctor_send' = result
    /\ pc' = "ready"
    /\ ret' = ret
    /\ IF VersionQueryRejected(result)
       THEN /\ error_' = KM_ERROR_VERSION_MISMATCH
            /\ mv_called' = FALSE
            /\ message_version_' = message_version_
       ELSE \E mv \in MessageVersions :
            /\ mv_called' = TRUE
            /\ message_version_' = mv
            /\ error_' = IF Unrepresentable(mv) THEN KM_ERROR_VERSION_MISMATCH ELSE result

\* a configure that stores a failed Send's result as the instance error
ConfigureAfterSend_sticky(err) ==
    /\ ret' = IF err # KM_ERROR_OK THEN err ELSE KM_ERROR_OK
    /\ pc' = "ready"
    /\ error_' = IF err # KM_ERROR_OK THEN err ELSE error_
    /\ UNCHANGED <<message_version_, ctor_send, mv_called>>

\* configure, lines 158-163, given what Send returned
ConfigureAfterSend(err) ==
    /\ ret' = IF err # KM_ERROR_OK THEN err ELSE KM_ERROR_OK
    /\ pc' = "ready"
    /\ UNCHANGED <<error_, message_version_, ctor_send, mv_called>>

\* Send called by itself: its result is the result
DirectAfterSend(err) ==
    /\ ret' = err
    /\ pc' = "ready"
    /\ UNCHANGED <<error_, message_version_, ctor_send, mv_called>>

Resume(w, result) ==
    CASE w = "ctor" -> CtorAfterSend(result)
      [] w = "configure" -> ConfigureAfterSend(result)
      [] OTHER -> DirectAfterSend(result)

(* ---------------- Send ---------------- *)

\* a size check against the page size instead of the send capacity
TooBig_page(size) == size > PAGE_SIZE

\* Send, line 367
TooBig(size) == size > SEND_BUF_SIZE

\* a decode failure that hands back the status read so far
ResponseStatus_partial(ok, e) == e

\* the embedded status put through translate_error
ResponseStatus_translated(ok, e) ==
    IF ~ok THEN KM_ERROR_UNKNOWN_ERROR ELSE translate_error(e)

\* Send, lines 390-397: the result once trusty_keymaster_call has succeeded;
\* ok is what rsp->Deserialize returned, e is rsp->error
ResponseStatus(ok, e) ==
    IF ~ok THEN KM_ERROR_UNKNOWN_ERROR
    ELSE IF e # KM_ERROR_OK THEN e
    ELSE e

\* Send returns result to w by the exit path named, the buffers left as sb and rb
SendReturn(w, result, exit, sb, rb) ==
    /\ send_ret' = result
    /\ send_exit' = exit
    /\ send_buf' = sb
    /\ recv_buf' = rb
    /\ Resume(w, result)

\* Send, lines 366-379: up to the call of trusty_keymaster_call; cur_error is
\* error_ as the caller has set it by then
Send(w, cmd, req, cur_error) ==
    /\ command' = cmd
    /\ req_size' = SerializedSize(req)
    /\ rc' = UNSET
    /\ rsp_error' = UNSET
    /\ decoded' = FALSE
    /\ IF TooBig(SerializedSize(req))
       THEN /\ SendReturn(w, KM_ERROR_MEMORY_ALLOCATION_FAILED, "oversize", send_buf, recv_buf)
            /\ calls' = 0
            /\ rsp_size' = UNSET
            /\ in_size' = UNSET
            /\ who' = who
       ELSE \E g \in GarbageBytes :
            /\ send_buf' = Serialize(StackArray(SEND_BUF_SIZE, g), req, SerializedSize(req))
            /\ recv_buf' = StackArray(RECV_BUF_SIZE, g)
            /\ rsp_size' = RECV_BUF_SIZE
            /\ in_size' = req_size'
            /\ calls' = 1
            /\ who' = w
            /\ pc' = "in_call"
            /\ send_ret' = UNSET
            /\ send_exit' = "none"
            /\ error_' = cur_error
            /\ UNCHANGED <<message_version_, ctor_send, mv_called, ret>>

\* a Send that calls the transport again when it answers busy
RetryOn_busy(r) == r = 0 - EBUSY

\* Send, lines 380-383: the failure codes after which Send calls
\* trusty_keymaster_call again; there are none, it returns at once
RetryOn(r) == FALSE

\* Send, lines 379-386: trusty_keymaster_call fails
TransportFails ==
    /\ pc = "in_call"
    /\ \E r \in FailureRcs, written \in BOOLEAN :
        /\ rc' = r
        /\ IF RetryOn(r)
           THEN /\ calls' = calls + 1
                /\ UNCHANGED <<pc, who, send_ret, send_exit, send_buf, recv_buf, error_,
                               message_version_, ctor_send, mv_called, ret>>
           ELSE /\ SendReturn(who, translate_error(r), "transport",
                              send_buf_eraser(send_buf),
                              recv_buf_eraser(IF written THEN TransportWrite(recv_buf, 0)
                                                         ELSE recv_buf))
                /\ who' = "none"
                /\ calls' = calls
    /\ UNCHANGED <<importVars, concVars, connects, disconnects, nops, command, req_size, in_size, rsp_size,
                   ctor_rc, decoded, rsp_error, last_op, op_arg, operation_handle>>

\* Send, lines 379-398: trusty_keymaster_call succeeds and the response is decoded
TransportReturns ==
    /\ pc = "in_call"
    /\ \E r \in SuccessRcs, n \in RspSizes, ok \in BOOLEAN, e \in RemoteErrors :
        /\ rc' = r
        /\ rsp_size' = n
        /\ decoded' = ok
        /\ rsp_error' = e
        /\ SendReturn(who, ResponseStatus(ok, e),
                      IF ~ok THEN "decode" ELSE IF e # KM_ERROR_OK THEN "remote" ELSE "ok",
                      send_buf_eraser(send_buf),
                      recv_buf_eraser(TransportWrite(recv_buf, n)))
    /\ who' = "none"
    /\ UNCHANGED <<importVars, concVars, connects, disconnects, calls, nops, command, req_size, in_size,
                   ctor_rc, last_op, op_arg, operation_handle>>

(* ---------------- the device ---------------- *)

\* an operation that calls Send leaves these as Send sets them; one that does
\* not has made no transport call
NoSend ==
    /\ calls' = 0
    /\ command' = UNSET
    /\ req_size' = UNSET
    /\ in_size' = UNSET
    /\ rsp_size' = UNSET
    /\ rc' = UNSET
    /\ decoded' = FALSE
    /\ rsp_error' = UNSET
    /\ send_ret' = UNSET
    /\ send_exit' = "none"
    /\ UNCHANGED <<send_buf, recv_buf, who>>

\* a constructor that goes on to the version query after a failed connect
ConnectFailed_never(r) == FALSE

\* constructor, line 112: the connect results after which it returns at once
ConnectFailed(r) == r < 0

\* TrustyKeymasterDevice::TrustyKeymasterDevice, lines 110-119
Constructor ==
    /\ pc = "new"
    /\ connects' = connects + 1
    /\ \E r \in FailureRcs \cup SuccessRcs :
        /\ ctor_rc' = r
        /\ IF ConnectFailed(r)
           THEN /\ error_' = translate_error(r)
                /\ pc' = "ready"
                /\ NoSend
                /\ UNCHANGED <<message_version_, ctor_send, mv_called, ret>>
           ELSE Send("ctor", KM_GET_VERSION, GetVersionRequest, translate_error(r))
    /\ UNCHANGED <<importVars, concVars, disconnects, nops, last_op, op_arg, operation_handle>>

\* TrustyKeymasterDevice::~TrustyKeymasterDevice, through close_device
close_device ==
    /\ pc = "ready"
    /\ pc' = "closed"
    /\ disconnects' = disconnects + 1
    /\ UNCHANGED <<importVars, concVars, who, error_, message_version_, connects, calls, nops, command,
                   req_size, in_size, send_buf, recv_buf, rsp_size, ctor_rc, rc, decoded,
                   rsp_error, send_exit, send_ret, ctor_send, mv_called, last_op,
                   op_arg, operation_handle, ret>>

Tags == {TAG_OS_VERSION, TAG_OS_PATCHLEVEL}

\* the parameter sets configure is called with
ParamSets ==
    {NULL} \cup {[null |-> FALSE, tags |-> f] : f \in UNION {[T -> OsValues] : T \in SUBSET Tags}}

\* AuthorizationSet::GetTagValue: whether the tag is present
GetTagValue(params, tag) == tag \in DOMAIN params.tags

\* the request field GetTagValue is given for the tag: the tag's value, or
\* the field as the request was constructed when the tag is absent
TagValue(params, tag) ==
    IF GetTagValue(params, tag) THEN params.tags[tag] ELSE 0

\* the required pointer argument of an operation: null or not
PointerArgs == {NULL, PRESENT}

\* data_length of add_rng_entropy
DataLengths == {0, 16}

\* data and data_length of add_rng_entropy
EntropyArgs ==
    {[null |-> n, tags |-> << >>, len |-> l] : n \in BOOLEAN, l \in DataLengths}

\* what every operation does on entry
Called(name, arg) ==
    /\ pc = "ready"
    /\ nops < MaxOps
    /\ nops' = nops + 1
    /\ last_op' = name
    /\ op_arg' = arg
    /\ operation_handle' = UNWRITTEN
    /\ UNCHANGED <<importVars, concVars, connects, disconnects, ctor_rc>>

\* an operation returns err without having called Send
ReturnLocal(err) ==
    /\ ret' = err
    /\ pc' = "ready"
    /\ NoSend
    /\ UNCHANGED <<error_, message_version_, ctor_send, mv_called>>

\* a check that fails only when both tags are missing
MissingRequiredTag_both(params) ==
    ~GetTagValue(params, TAG_OS_VERSION) /\ ~GetTagValue(params, TAG_OS_PATCHLEVEL)

\* configure, lines 151-152
MissingRequiredTag(params) ==
    ~GetTagValue(params, TAG_OS_VERSION) \/ ~GetTagValue(params, TAG_OS_PATCHLEVEL)

\* TrustyKeymasterDevice::configure, lines 139-158
configure ==
    \E params \in ParamSets :
        /\ Called("configure", params)
        /\ IF error_ # KM_ERROR_OK
           THEN ReturnLocal(error_)
           ELSE IF params.null
           THEN ReturnLocal(KM_ERROR_UNEXPECTED_NULL_POINTER)
           ELSE IF MissingRequiredTag(params)
           THEN ReturnLocal(KM_ERROR_INVALID_ARGUMENT)
           ELSE Send("configure", KM_CONFIGURE,
                     ConfigureRequest(TagValue(params, TAG_OS_VERSION),
                                      TagValue(params, TAG_OS_PATCHLEVEL)),
                     error_)

add_rng_entropy ==
    \E data \in EntropyArgs :
        /\ Called("add_rng_entropy", data)
        /\ ReturnLocal(KM_ERROR_OK)

generate_key ==
    \E arg \in PointerArgs :
        /\ Called("generate_key", arg)
        /\ ReturnLocal(KM_ERROR_OK)

get_key_characteristics ==
    \E arg \in PointerArgs :
        /\ Called("get_key_characteristics", arg)
        /\ ReturnLocal(KM_ERROR_OK)

import_key ==
    \E arg \in PointerArgs :
        /\ Called("import_key", arg)
        /\ ReturnLocal(KM_ERROR_OK)

export_key ==
    \E arg \in PointerArgs :
        /\ Called("export_key", arg)
        /\ ReturnLocal(KM_ERROR_OK)

attest_key ==
    \E arg \in PointerArgs :
        /\ Called("attest_key", arg)
        /\ ReturnLocal(KM_ERROR_OK)

upgrade_key ==
    \E arg \in PointerArgs :
        /\ Called("upgrade_key", arg)
        /\ ReturnLocal(KM_ERROR_OK)

begin ==
    \E arg \in PointerArgs :
        /\ Called("begin", arg)
        /\ ReturnLocal(KM_ERROR_OK)

update ==
    \E arg \in PointerArgs :
        /\ Called("update", arg)
        /\ ReturnLocal(KM_ERROR_OK)

finish ==
    \E arg \in PointerArgs :
        /\ Called("finish", arg)
        /\ ReturnLocal(KM_ERROR_OK)

abort ==
    /\ Called("abort", PRESENT)
    /\ ReturnLocal(KM_ERROR_OK)

Operations == {"configure", "add_rng_entropy", "generate_key", "get_key_characteristics",
               "import_key", "export_key", "attest_key", "upgrade_key",
               "begin", "update", "finish", "abort"}

(* ---------------- the specification of the device ---------------- *)

\* the threads that call the operations of one device
Threads == 1 .. NThreads

\* no thread has called the device
NoCallers ==
    /\ discipline = "serialized"
    /\ mutex = 0
    /\ tpc = [t \in Threads |-> "idle"]
    /\ tnops = [t \in Threads |-> 0]
    /\ tret = [t \in Threads |-> UNSET]
    /\ inflight = 0

\* an ImportParser as constructed, and no file being parsed
NoImports ==
    /\ imports_ = << >>
    /\ filename_ = ""
    /\ frames = << >>
    /\ parsed = [args |-> << >>, ret |-> TRUE, err |-> ""]
    /\ attempts = << >>
    /\ ilog = << >>
    /\ finished = [current_imports |-> << >>, tried |-> << >>]
    /\ directives = << >>

Init ==
    /\ pc = "new"
    /\ who = "none"
    /\ error_ = UNSET
    /\ message_version_ = UNSET
    /\ connects = 0
    /\ disconnects = 0
    /\ calls = 0
    /\ nops = 0
    /\ command = UNSET
    /\ req_size = UNSET
    /\ in_size = UNSET
    /\ send_buf = << >>
    /\ recv_buf = << >>
    /\ rsp_size = UNSET
    /\ ctor_rc = UNSET
    /\ rc = UNSET
    /\ decoded = FALSE
    /\ rsp_error = UNSET
    /\ send_exit = "none"
    /\ send_ret = UNSET
    /\ ctor_send = UNSET
    /\ mv_called = FALSE
    /\ last_op = "none"
    /\ op_arg = NULL
    /\ operation_handle = UNWRITTEN
    /\ NoImports
    /\ NoCallers
    /\ ret = UNSET

Next ==
    \/ Constructor
    \/ TransportFails
    \/ TransportReturns
    \/ configure
    \/ add_rng_entropy
    \/ generate_key
    \/ get_key_characteristics
    \/ import_key
    \/ export_key
    \/ attest_key
    \/ upgrade_key
    \/ begin
    \/ update
    \/ finish
    \/ abort
    \/ close_device

Spec == Init /\ [][Next]_vars

(* ---------------- Send driven with requests of every size ---------------- *)

\* serialized requests up to and past the send capacity
DirectRequests ==
    {Fill(n, 255) : n \in {0, 8, SEND_BUF_SIZE - 1, SEND_BUF_SIZE}
                          \cup {SEND_BUF_SIZE + k : k \in 1 .. MaxOver}}

\* Send called on a constructed instance with any request
SendRequest ==
    \E req \in DirectRequests, cmd \in {KM_GET_VERSION, KM_CONFIGURE} :
        /\ Called("Send", NULL)
        /\ Send("Send", cmd, req, error_)

NextSend ==
    \/ Constructor
    \/ SendRequest
    \/ TransportFails
    \/ TransportReturns

SpecSend == Init /\ [][NextSend]_vars

(* ---------------- translate_error applied to every code ---------------- *)

InitTranslate ==
    /\ pc = "translate"
    /\ rc \in (0 - MaxErrno) .. MaxErrno
    /\ who = "none"
    /\ error_ = UNSET
    /\ message_version_ = UNSET
    /\ connects = 0
    /\ disconnects = 0
    /\ calls = 0
    /\ nops = 0
    /\ command = UNSET
    /\ req_size = UNSET
    /\ in_size = UNSET
    /\ send_buf = << >>
    /\ recv_buf = << >>
    /\ rsp_size = UNSET
    /\ ctor_rc = UNSET
    /\ decoded = FALSE
    /\ rsp_error = UNSET
    /\ send_exit = "none"
    /\ send_ret = UNSET
    /\ ctor_send = UNSET
    /\ mv_called = FALSE
    /\ last_op = "none"
    /\ op_arg = NULL
    /\ operation_handle = UNWRITTEN
    /\ NoImports
    /\ NoCallers
    /\ ret = UNSET

\* ret = translate_error(rc)
Translate ==
    /\ pc = "translate"
    /\ pc' = "translated"
    /\ ret' = translate_error(rc)
    /\ UNCHANGED <<importVars, concVars, who, error_, message_version_, connects, disconnects, calls, nops,
                   command, req_size, in_size, send_buf, recv_buf, rsp_size, ctor_rc, rc, decoded,
                   rsp_error, send_exit, send_ret, ctor_send, mv_called, last_op, op_arg,
                   operation_handle>>

NextTranslate == Translate

SpecTranslate == InitTranslate /\ [][NextTranslate]_vars

(* ---------------- the import parser ---------------- *)

\* the second token of an import line, as written in the file
RawArgs == {"/init.a.rc", "/init.${ro.hardware}.rc", "/init.${ro.unset}.rc"}

\* the token lists the parser hands to ParseSection for an import line
Directives ==
    {<<"import">>, <<"import", "/init.a.rc", "/init.b.rc">>}
        \cup {<<"import", a>> : a \in RawArgs}

\* expand_props(src, &dst): ro.hardware is set to "b", ro.unset is not set
expand_props(src) ==
    CASE src = "/init.a.rc" -> [ok |-> TRUE, dst |-> "/init.a.rc"]
      [] src = "/init.${ro.hardware}.rc" -> [ok |-> TRUE, dst |-> "/init.b.rc"]
      [] OTHER -> [ok |-> FALSE, dst |-> ""]

\* the (path, line) pairs of a sequence of records that have both
Entries(t) == [i \in DOMAIN t |-> [import |-> t[i].import, line |-> t[i].line]]

\* Parser::ParseConfig entered for file: no line read yet
Frame(file) ==
    [file |-> file, line |-> 0, phase |-> "parse",
     current_imports |-> << >>, idx |-> 1, tried |-> << >>]

\* the ParseConfig call that is running
Top == frames[Len(frames)]

RECURSIVE Pending(_)
\* the imports the EndFile calls in progress have yet to hand to ParseConfig
Pending(fs) ==
    IF fs = << >> THEN 0
    ELSE Pending(Tail(fs))
            + (IF Head(fs).phase = "endfile"
               THEN Len(Head(fs).current_imports) - (Head(fs).idx - 1)
               ELSE 0)

\* the imports queued so far in this run of the parser
Queued == Len(attempts) + Pending(frames) + Len(imports_)

\* a ParseSection that only refuses a directive with no argument
WrongArgCount_few(n) == n < 2

\* ParseSection, line 25: the token counts it refuses
WrongArgCount(n) == n # 2

\* ImportParser::ParseSection, called by the parser for the next line of the
\* file being parsed, an import line
ParseSection ==
    /\ frames # << >>
    /\ Top.phase = "parse"
    /\ Top.line < MaxLines
    /\ \E args \in Directives :
        IF WrongArgCount(Len(args))
        THEN /\ parsed' = [args |-> args, ret |-> FALSE,
                           err |-> "single argument needed for import\n"]
             /\ UNCHANGED <<imports_, filename_, directives>>
        ELSE IF ~expand_props(args[2]).ok
        THEN /\ parsed' = [args |-> args, ret |-> FALSE,
                           err |-> "error while expanding import"]
             /\ UNCHANGED <<imports_, filename_, directives>>
        ELSE /\ Queued < MaxImports
             /\ filename_' = IF filename_ = "" THEN Top.file ELSE filename_
             /\ imports_' = Append(imports_, [import |-> expand_props(args[2]).dst,
                                              line |-> Top.line + 1])
             /\ directives' = Append(directives,
                                      [file |-> Top.file, line |-> Top.line + 1,
                                       import |-> expand_props(args[2]).dst])
             /\ parsed' = [args |-> args, ret |-> TRUE, err |-> ""]
    /\ frames' = [frames EXCEPT ![Len(frames)].line = Top.line + 1]
    /\ UNCHANGED <<attempts, ilog, finished, deviceVars, concVars>>

\* an EndFile that copies imports_ and leaves it as it was
Leftover_all(list) == list

\* EndFile, lines 44-45: what imports_ holds once it has been moved from and
\* cleared
Leftover(list) == << >>

\* ImportParser::EndFile, lines 44-45, called by the parser at the end of the
\* file being parsed
EndFile ==
    /\ frames # << >>
    /\ Top.phase = "parse"
    /\ frames' = [frames EXCEPT ![Len(frames)] =
                    [Top EXCEPT !.phase = "endfile", !.current_imports = imports_,
                                !.idx = 1, !.tried = << >>]]
    /\ imports_' = Leftover(imports_)
    /\ UNCHANGED <<filename_, parsed, attempts, ilog, finished, directives, deviceVars, concVars>>

\* an EndFile that gives up its list at the first import that fails
StopsAfter_failure(ok) == ~ok

\* EndFile, lines 46-51: the results of ParseConfig after which the loop is
\* left early; there are none
StopsAfter(ok) == FALSE

\* EndFile, lines 46-50: the next pending import is handed to ParseConfig,
\* which either cannot read the file and returns false at once, or starts to
\* parse it
EndFileImport ==
    /\ frames # << >>
    /\ Top.phase = "endfile"
    /\ Top.idx <= Len(Top.current_imports)
    /\ \E readable \in BOOLEAN :
        LET entry == Top.current_imports[Top.idx]
            call == [import |-> entry.import, line |-> entry.line, ok |-> readable,
                     by |-> Top.file]
            caller == [Top EXCEPT !.tried = Append(Top.tried, call),
                                  !.idx = IF StopsAfter(readable)
                                          THEN Len(Top.current_imports) + 1
                                          ELSE Top.idx + 1]
        IN  /\ attempts' = Append(attempts, call)
            /\ IF readable
               THEN /\ frames' = Append([frames EXCEPT ![Len(frames)] = caller],
                                        Frame(entry.import))
                    /\ ilog' = ilog
               ELSE /\ frames' = [frames EXCEPT ![Len(frames)] = caller]
                    /\ ilog' = Append(ilog, [file |-> filename_, line |-> entry.line,
                                             import |-> entry.import])
    /\ UNCHANGED <<imports_, filename_, parsed, finished, directives, deviceVars, concVars>>

\* EndFile, line 52: the loop is over; EndFile and the ParseConfig that
\* called it return
EndFileReturn ==
    /\ frames # << >>
    /\ Top.phase = "endfile"
    /\ Top.idx > Len(Top.current_imports)
    /\ finished' = [current_imports |-> Top.current_imports, tried |-> Top.tried]
    /\ frames' = SubSeq(frames, 1, Len(frames) - 1)
    /\ UNCHANGED <<imports_, filename_, parsed, attempts, ilog, directives, deviceVars, concVars>>

\* init has called ParseConfig for its first file
InitImport ==
    /\ pc = "new"
    /\ who = "none"
    /\ error_ = UNSET
    /\ message_version_ = UNSET
    /\ connects = 0
    /\ disconnects = 0
    /\ calls = 0
    /\ nops = 0
    /\ command = UNSET
    /\ req_size = UNSET
    /\ in_size = UNSET
    /\ send_buf = << >>
    /\ recv_buf = << >>
    /\ rsp_size = UNSET
    /\ ctor_rc = UNSET
    /\ rc = UNSET
    /\ decoded = FALSE
    /\ rsp_error = UNSET
    /\ send_exit = "none"
    /\ send_ret = UNSET
    /\ ctor_send = UNSET
    /\ mv_called = FALSE
    /\ last_op = "none"
    /\ op_arg = NULL
    /\ operation_handle = UNWRITTEN
    /\ ret = UNSET
    /\ imports_ = << >>
    /\ filename_ = ""
    /\ frames = <<Frame("/init.rc")>>
    /\ parsed = [args |-> << >>, ret |-> TRUE, err |-> ""]
    /\ attempts = << >>
    /\ ilog = << >>
    /\ finished = [current_imports |-> << >>, tried |-> << >>]
    /\ directives = << >>
    /\ NoCallers

NextImport ==
    \/ ParseSection
    \/ EndFile
    \/ EndFileImport
    \/ EndFileReturn

SpecImport == InitImport /\ [][NextImport]_vars

(* ---------------- one device called from several threads ---------------- *)

\* a Send that returns to its caller while the transport is still at work
AwaitsTransport_never == FALSE

\* Send, line 379: trusty_keymaster_call is an ordinary call, Send goes on
\* when it has returned
AwaitsTransport == TRUE

\* thread t calls configure on the shared device, lines 139-158, and Send up
\* to trusty_keymaster_call, lines 366-379; callers that take turns wait for
\* the caller before them to return
CallerConfigure(t) ==
    /\ tpc[t] = "idle"
    /\ tnops[t] < MaxOps
    /\ discipline = "serialized" => mutex = 0
    /\ tnops' = [tnops EXCEPT ![t] = tnops[t] + 1]
    /\ \E params \in ParamSets :
        LET req == ConfigureRequest(TagValue(params, TAG_OS_VERSION),
                                    TagValue(params, TAG_OS_PATCHLEVEL))
            local == IF error_ # KM_ERROR_OK THEN error_
                     ELSE IF params.null THEN KM_ERROR_UNEXPECTED_NULL_POINTER
                     ELSE IF MissingRequiredTag(params) THEN KM_ERROR_INVALID_ARGUMENT
                     ELSE IF TooBig(SerializedSize(req)) THEN KM_ERROR_MEMORY_ALLOCATION_FAILED
                     ELSE KM_ERROR_OK
        IN  IF local # KM_ERROR_OK
            THEN /\ tret' = [tret EXCEPT ![t] = local]
                 /\ UNCHANGED <<tpc, mutex, inflight>>
            ELSE /\ inflight' = inflight + 1
                 /\ IF AwaitsTransport
                    THEN /\ tpc' = [tpc EXCEPT ![t] = "in_call"]
                         /\ mutex' = IF discipline = "serialized" THEN t ELSE mutex
                         /\ tret' = tret
                    ELSE /\ tret' = [tret EXCEPT ![t] = KM_ERROR_OK]
                         /\ UNCHANGED <<tpc, mutex>>
    /\ UNCHANGED <<discipline, deviceVars, importVars>>

\* thread t is back from trusty_keymaster_call and returns result from Send
\* and from configure, lines 158-163
CallerReturns(t, result) ==
    /\ tpc[t] = "in_call"
    /\ inflight' = inflight - 1
    /\ tpc' = [tpc EXCEPT ![t] = "idle"]
    /\ tret' = [tret EXCEPT ![t] = result]
    /\ mutex' = IF discipline = "serialized" THEN 0 ELSE mutex
    /\ UNCHANGED <<discipline, tnops, deviceVars, importVars>>

\* Send, lines 380-383, in thread t
CallerTransportFails(t) ==
    \E r \in FailureRcs : CallerReturns(t, translate_error(r))

\* Send, lines 384-397, in thread t
CallerTransportReturns(t) ==
    \E ok \in BOOLEAN, e \in RemoteErrors : CallerReturns(t, ResponseStatus(ok, e))

\* a device has been constructed and is handed to callers that take turns, or
\* to callers that do not
InitConc ==
    /\ pc = "ready"
    /\ who = "none"
    /\ error_ \in {KM_ERROR_OK, KM_ERROR_VERSION_MISMATCH}
    /\ message_version_ = UNSET
    /\ connects = 1
    /\ disconnects = 0
    /\ calls = 0
    /\ nops = 0
    /\ command = UNSET
    /\ req_size = UNSET
    /\ in_size = UNSET
    /\ send_buf = << >>
    /\ recv_buf = << >>
    /\ rsp_size = UNSET
    /\ ctor_rc = 0
    /\ rc = UNSET
    /\ decoded = FALSE
    /\ rsp_error = UNSET
    /\ send_exit = "none"
    /\ send_ret = UNSET
    /\ ctor_send = UNSET
    /\ mv_called = FALSE
    /\ last_op = "none"
    /\ op_arg = NULL
    /\ operation_handle = UNWRITTEN
    /\ ret = UNSET
    /\ NoImports
    /\ discipline \in {"serialized", "unserialized"}
    /\ mutex = 0
    /\ tpc = [t \in Threads |-> "idle"]
    /\ tnops = [t \in Threads |-> 0]
    /\ tret = [t \in Threads |-> UNSET]
    /\ inflight = 0

NextConc ==
    \E t \in Threads :
        \/ CallerConfigure(t)
        \/ CallerTransportFails(t)
        \/ CallerTransportReturns(t)

SpecConc == InitConc /\ [][NextConc]_vars

(* ---------------- what the claims speak of ---------------- *)

\* construction has finished
Constructed == pc \in {"ready", "closed"} \/ (pc = "in_call" /\ who # "ctor")

\* an operation of the device has been called and has returned
Returned == pc \in {"ready", "closed"} /\ last_op \in Operations

\* the last Send called trusty_keymaster_call and has returned
SendCalled == pc # "in_call" /\ send_exit \in {"transport", "decode", "remote", "ok"}

\* the last Send got a response from trusty_keymaster_call
Answered == SendCalled /\ send_exit # "transport"

(* ---------------- C1 ---------------- *)

\* C1: if construction left an error state other than OK, every operation
\* called afterwards returns that error and makes no transport call.
C1_StickyError ==
    (Returned /\ error_ # KM_ERROR_OK) => (ret = error_ /\ calls = 0)

(* ---------------- C2 ---------------- *)

\* C2: for a request whose serialized size exceeds SEND_BUF_SIZE, Send returns
\* memory-allocation-failed and trusty_keymaster_call is not invoked for it.
C2_OversizeRejected ==
    (last_op = "Send" /\ req_size > SEND_BUF_SIZE) =>
        /\ pc # "in_call"
        /\ calls = 0
        /\ send_ret = KM_ERROR_MEMORY_ALLOCATION_FAILED
        /\ ret = KM_ERROR_MEMORY_ALLOCATION_FAILED

C2_Witness ==
    /\ last_op = "Send"
    /\ req_size = SEND_BUF_SIZE + 1
    /\ send_exit = "oversize"
    /\ ret = KM_ERROR_MEMORY_ALLOCATION_FAILED

(* ---------------- C3 ---------------- *)

\* C3: when the version query of the constructor is answered with
\* invalid-argument or unimplemented, error_ becomes version-mismatch and the
\* constructor returns there, before MessageVersion.
C3_QueryRejectedIsMismatch ==
    (Constructed /\ ctor_rc >= 0
        /\ ctor_send \in {KM_ERROR_INVALID_ARGUMENT, KM_ERROR_UNIMPLEMENTED}) =>
        /\ error_ = KM_ERROR_VERSION_MISMATCH
        /\ ~mv_called
        /\ message_version_ = UNSET

C3_Witness ==
    /\ Constructed
    /\ ctor_rc >= 0
    /\ ctor_send = KM_ERROR_UNIMPLEMENTED
    /\ error_ = KM_ERROR_VERSION_MISMATCH

(* ---------------- C4 ---------------- *)

\* C4: when MessageVersion is negative for the version the remote reports,
\* error_ becomes version-mismatch and every further operation is refused:
\* it returns version-mismatch without a transport call.
C4_UnrepresentableVersionRefuses ==
    (Constructed /\ mv_called /\ message_version_ < 0) =>
        /\ error_ = KM_ERROR_VERSION_MISMATCH
        /\ Returned => (ret = KM_ERROR_VERSION_MISMATCH /\ calls = 0)

(* ---------------- C5 ---------------- *)

\* C5: translate_error maps 0 to OK, -EPERM and -EACCES to access-denied,
\* -ECANCELED to operation-cancelled, -ENODEV to unimplemented, -ENOMEM to
\* memory-allocation-failed, -EBUSY to busy, -EIO to communication-failed,
\* -EOVERFLOW to invalid-input-length and every other code to unknown-error.
C5_TranslateTable ==
    pc = "translated" =>
        /\ rc = 0 => ret = KM_ERROR_OK
        /\ rc \in {0 - EPERM, 0 - EACCES} => ret = KM_ERROR_SECURE_HW_ACCESS_DENIED
        /\ rc = 0 - ECANCELED => ret = KM_ERROR_OPERATION_CANCELLED
        /\ rc = 0 - ENODEV => ret = KM_ERROR_UNIMPLEMENTED
        /\ rc = 0 - ENOMEM => ret = KM_ERROR_MEMORY_ALLOCATION_FAILED
        /\ rc = 0 - EBUSY => ret = KM_ERROR_SECURE_HW_BUSY
        /\ rc = 0 - EIO => ret = KM_ERROR_SECURE_HW_COMMUNICATION_FAILED
        /\ rc = 0 - EOVERFLOW => ret = KM_ERROR_INVALID_INPUT_LENGTH
        /\ rc \notin {0, 0 - EPERM, 0 - EACCES, 0 - ECANCELED, 0 - ENODEV, 0 - ENOMEM,
                       0 - EBUSY, 0 - EIO, 0 - EOVERFLOW} => ret = KM_ERROR_UNKNOWN_ERROR

C5_Witness ==
    /\ pc = "translated"
    /\ rc = 0 - EACCES
    /\ ret = KM_ERROR_SECURE_HW_ACCESS_DENIED

(* ---------------- C6 ---------------- *)

\* C6: configure on an instance whose error state is OK, with a non-null
\* parameter set lacking the OS version tag or the OS patch level tag,
\* returns invalid-argument and makes no transport call.
C6_ConfigureMissingTag ==
    (Constructed /\ last_op = "configure" /\ error_ = KM_ERROR_OK /\ ~op_arg.null
        /\ (TAG_OS_VERSION \notin DOMAIN op_arg.tags
            \/ TAG_OS_PATCHLEVEL \notin DOMAIN op_arg.tags)) =>
        /\ pc # "in_call"
        /\ calls = 0
        /\ ret = KM_ERROR_INVALID_ARGUMENT

C6_Witness ==
    /\ pc = "ready"
    /\ last_op = "configure"
    /\ error_ = KM_ERROR_OK
    /\ ~op_arg.null
    /\ DOMAIN op_arg.tags = {TAG_OS_VERSION}
    /\ ret = KM_ERROR_INVALID_ARGUMENT

(* ---------------- C7 ---------------- *)

\* C7: after Send returns by transport failure, decode failure, remote error
\* or success, every byte of the whole of send_buf and of recv_buf is zero.
C7_BuffersErased ==
    SendCalled =>
        /\ AllZero(send_buf, SEND_BUF_SIZE)
        /\ AllZero(recv_buf, RECV_BUF_SIZE)

C7_Witness ==
    /\ SendCalled
    /\ send_exit = "transport"
    /\ req_size = 8
    /\ AllZero(send_buf, SEND_BUF_SIZE)

(* ---------------- C8 ---------------- *)

\* C8: every operation called on an instance whose error state is OK with its
\* required arguments present performs exactly one Send and returns what Send
\* returned.
C8_EveryOperationSends ==
    (Returned /\ error_ = KM_ERROR_OK /\ ~op_arg.null
        /\ (last_op = "configure" =>
                /\ TAG_OS_VERSION \in DOMAIN op_arg.tags
                /\ TAG_OS_PATCHLEVEL \in DOMAIN op_arg.tags)) =>
        /\ calls = 1
        /\ send_exit # "none"
        /\ ret = send_ret

(* ---------------- C9 ---------------- *)

\* C9: when trusty_keymaster_call succeeds and the response decodes, Send
\* returns the status embedded in the response unchanged, and returns OK
\* exactly when that status is OK.
C9_RemoteStatusPassedThrough ==
    (Answered /\ rc >= 0 /\ decoded) =>
        /\ send_ret = rsp_error
        /\ (send_ret = KM_ERROR_OK) <=> (rsp_error = KM_ERROR_OK)

C9_Witness ==
    /\ Answered
    /\ rc >= 0
    /\ decoded
    /\ rsp_error = KM_ERROR_OPERATION_CANCELLED
    /\ send_ret = KM_ERROR_OPERATION_CANCELLED

(* ---------------- C10 ---------------- *)

\* C10: when trusty_keymaster_call succeeds but the response fails to decode,
\* Send returns unknown-error whatever status the response holds.
C10_DecodeFailureIsUnknown ==
    (Answered /\ rc >= 0 /\ ~decoded) => send_ret = KM_ERROR_UNKNOWN_ERROR

C10_Witness ==
    /\ Answered
    /\ rc >= 0
    /\ ~decoded
    /\ rsp_error = KM_ERROR_OK
    /\ send_ret = KM_ERROR_UNKNOWN_ERROR

(* ---------------- C11 ---------------- *)

\* C11: no failure is retried: one call of Send invokes trusty_keymaster_call
\* at most once, and when that call fails, busy included, Send returns the
\* translated error without calling again.
C11_NoRetry ==
    /\ calls <= 1
    /\ pc = "in_call" => calls = 1
    /\ (SendCalled /\ send_exit = "transport") =>
        /\ calls = 1
        /\ rc < 0
        /\ rc = 0 - EBUSY => send_ret = KM_ERROR_SECURE_HW_BUSY
        /\ rc = 0 - EIO => send_ret = KM_ERROR_SECURE_HW_COMMUNICATION_FAILED

C11_Witness ==
    /\ SendCalled
    /\ send_exit = "transport"
    /\ rc = 0 - EBUSY
    /\ calls = 1
    /\ send_ret = KM_ERROR_SECURE_HW_BUSY

(* ---------------- C12 ---------------- *)

\* C12: an operation called with a required pointer argument null on an
\* instance whose error state is OK returns unexpected-null-pointer without a
\* transport call; when the error state is not OK the operation returns the
\* instance error whatever its arguments.
C12_NullArgument ==
    /\ (Returned /\ error_ = KM_ERROR_OK /\ op_arg.null) =>
            (ret = KM_ERROR_UNEXPECTED_NULL_POINTER /\ calls = 0)
    /\ (Returned /\ error_ # KM_ERROR_OK) => ret = error_

(* ---------------- C13 ---------------- *)

\* C13: a begin that returns OK has obtained an operation handle from the
\* remote service by a Send and stored it for the caller; a begin that returns
\* an error has stored no handle.
C13_BeginDeliversHandle ==
    /\ (Returned /\ last_op = "begin" /\ ret = KM_ERROR_OK) =>
            (calls = 1 /\ send_exit = "ok" /\ operation_handle # UNWRITTEN)
    /\ (Returned /\ last_op = "begin" /\ ret # KM_ERROR_OK) =>
            operation_handle = UNWRITTEN

(* ---------------- C14 ---------------- *)

\* C14: add_rng_entropy with data_length 0 on an instance whose error state is
\* OK returns OK and has sent a request frame to the remote service.
C14_EmptyEntropySent ==
    (Returned /\ last_op = "add_rng_entropy" /\ error_ = KM_ERROR_OK /\ op_arg.len = 0) =>
        /\ ret = KM_ERROR_OK
        /\ calls = 1
        /\ send_exit = "ok"

(* ---------------- C15 ---------------- *)

\* C15 as stated: every construction has made exactly one connect attempt and
\* exactly one version query, and destruction has made the disconnect.
C15_OneConnectOneQuery ==
    /\ (Constructed /\ nops = 0) =>
            (connects = 1 /\ calls = 1 /\ command = KM_GET_VERSION)
    /\ pc = "closed" => disconnects = 1

\* C15 amended: every construction has made exactly one connect attempt; it
\* has made exactly one version query when the connect succeeded and none when
\* the connect failed; no operation makes a version query; the disconnect is
\* made once, by destruction.
C15_QueryOnlyWhenConnected ==
    /\ Constructed => connects = 1
    /\ (Constructed /\ nops = 0) =>
            IF ctor_rc < 0
            THEN calls = 0 /\ send_exit = "none"
            ELSE calls = 1 /\ command = KM_GET_VERSION
    /\ (Constructed /\ nops > 0 /\ calls > 0) => command # KM_GET_VERSION
    /\ disconnects = IF pc = "closed" THEN 1 ELSE 0

C15_Witness ==
    /\ pc = "closed" /\ nops = 0 /\ ctor_rc = 0 - ENODEV
    /\ connects = 1 /\ calls = 0 /\ disconnects = 1

(* ---------------- C16 ---------------- *)

\* a step that calls configure with both tags on an instance whose error
\* state is OK
ConfigureStep ==
    /\ pc = "ready" /\ error_ = KM_ERROR_OK
    /\ nops' = nops + 1 /\ last_op' = "configure"
    /\ ~op_arg'.null /\ Tags \subseteq DOMAIN op_arg'.tags

\* C16: once the constructor has returned no step changes the instance error
\* state, whatever Send returns; and configure called on an instance whose
\* error state is OK goes to the transport whatever the calls before it
\* returned.
C16_ErrorStateFrozen ==
    [][/\ Constructed => error_' = error_
       /\ ConfigureStep => (pc' = "in_call" /\ calls' = 1)]_vars

\* a first call failed, the error state is still OK and the second call is at
\* the transport
C16_Witness ==
    /\ pc = "in_call" /\ who = "configure" /\ nops = 2
    /\ ret # KM_ERROR_OK
    /\ error_ = KM_ERROR_OK /\ calls = 1

(* ---------------- C17 ---------------- *)

\* C17: the value Send returns for a response that fails to decode is
\* KM_ERROR_UNKNOWN_ERROR (C10), so no response that decodes is answered with
\* that value.
C17_DecodeFailureDistinct ==
    (Answered /\ decoded) => send_ret # KM_ERROR_UNKNOWN_ERROR

(* ---------------- C18 ---------------- *)

\* C18: while a request that passed the size check is at the transport, the
\* request's SerializedSize bytes are the first bytes of send_buf, the bytes
\* after them are as the array was declared, SerializedSize is no more than
\* the capacity of send_buf, and in_size is SerializedSize.
C18_SerializedRange ==
    pc = "in_call" =>
        /\ req_size <= SEND_BUF_SIZE
        /\ in_size = req_size
        /\ Size(send_buf) = SEND_BUF_SIZE
        /\ Take(send_buf, req_size) = Fill(req_size, 255)
        /\ \A i \in DOMAIN Skip(send_buf, req_size) :
                Skip(send_buf, req_size)[i].byte \in GarbageBytes

C18_Witness ==
    /\ pc = "in_call" /\ who = "Send"
    /\ req_size = SEND_BUF_SIZE /\ in_size = SEND_BUF_SIZE
    /\ send_buf = Fill(SEND_BUF_SIZE, 255)

(* ---------------- C19 ---------------- *)

\* C19: an EndFile in progress has handed to ParseConfig exactly the imports
\* of its list that come before the one it is at, once each and in the order
\* of the list, whether they loaded or not; an EndFile that has returned has
\* handed over its whole list; and the lines logged are those of the imports
\* that failed, in the order they failed.
C19_EveryImportAttempted ==
    /\ \A i \in DOMAIN frames :
        frames[i].phase = "endfile" =>
            Entries(frames[i].tried)
                = SubSeq(frames[i].current_imports, 1, frames[i].idx - 1)
    /\ Entries(finished.tried) = finished.current_imports
    /\ Entries(ilog) = Entries(SelectSeq(attempts, LAMBDA a : ~a.ok))

\* an EndFile has returned whose first import failed and whose second loaded
C19_Witness ==
    /\ Len(finished.tried) = 2
    /\ ~finished.tried[1].ok
    /\ finished.tried[2].ok
    /\ Len(ilog) >= 1

(* ---------------- C20 ---------------- *)

\* C20 as stated: at most one trusty_keymaster_call of the instance is in
\* flight, however its callers interleave.
C20_OneCallInFlight == inflight <= 1

\* C20 amended: every call in flight has its caller waiting inside it, so a
\* caller has at most one; and when the callers of the instance take turns at
\* most one call of the instance is in flight.
C20_OneCallPerCaller ==
    /\ inflight = Cardinality({t \in Threads : tpc[t] = "in_call"})
    /\ discipline = "serialized" => inflight <= 1

\* callers that take turns: one is in the transport, another has calls left
\* to make and waits
C20_Witness ==
    /\ discipline = "serialized" /\ inflight = 1
    /\ \E t \in Threads, u \in Threads :
        /\ t # u
        /\ tpc[t] = "in_call" /\ mutex = t
        /\ tpc[u] = "idle" /\ tnops[u] < MaxOps

(* ---------------- C21 ---------------- *)

\* a step in which ParseSection is called and returns
ParseSectionStep ==
    /\ frames # << >> /\ Len(frames') = Len(frames)
    /\ frames'[Len(frames)].line = Top.line + 1

\* C21: ParseSection returns true exactly for a directive of two tokens whose
\* second token expands, and then has appended the expanded path with the
\* directive's line to imports_ and nothing else; for every other directive it
\* returns false, has written an error message, and imports_ is as it was.
C21_ParseSection ==
    [][ParseSectionStep =>
        IF Len(parsed'.args) = 2 /\ expand_props(parsed'.args[2]).ok
        THEN /\ parsed'.ret
             /\ imports_' = imports_ \o <<[import |-> expand_props(parsed'.args[2]).dst,
                                           line |-> Top.line + 1]>>
        ELSE /\ ~parsed'.ret
             /\ parsed'.err # ""
             /\ imports_' = imports_]_vars

\* a directive whose argument names a property has been queued, expanded,
\* after one that was refused
C21_Witness ==
    /\ parsed.ret
    /\ parsed.args = <<"import", "/init.${ro.hardware}.rc">>
    /\ imports_ = <<[import |-> "/init.b.rc", line |-> 2]>>

(* ---------------- C22 ---------------- *)

\* C22: once the constructor has returned, error_ is KM_ERROR_OK exactly when
\* trusty_keymaster_connect returned a code that is not negative, the
\* GetVersion Send returned KM_ERROR_OK and MessageVersion gave a version.
C22_ErrorStateAfterConstruction ==
    Constructed =>
        (error_ = KM_ERROR_OK <=>
            /\ ctor_rc >= 0
            /\ ctor_send = KM_ERROR_OK
            /\ mv_called
            /\ message_version_ >= 0)

\* the version query failed with an error that is neither invalid-argument
\* nor unimplemented, MessageVersion gave a version, and error_ is that error
C22_Witness ==
    /\ Constructed /\ nops = 0
    /\ ctor_rc >= 0
    /\ ctor_send = KM_ERROR_SECURE_HW_BUSY
    /\ mv_called
    /\ message_version_ >= 0
    /\ error_ = KM_ERROR_SECURE_HW_BUSY

(* ---------------- C23 ---------------- *)

\* C23: when Send has returned KM_ERROR_OK the request was no longer than
\* SEND_BUF_SIZE, trusty_keymaster_call returned a code that is not negative,
\* the response decoded and its error field is KM_ERROR_OK; and
\* translate_error gives KM_ERROR_OK for no negative code.
C23_OkOnlyWhenAllSucceeded ==
    /\ (pc # "in_call" /\ send_exit # "none" /\ send_ret = KM_ERROR_OK) =>
            /\ req_size <= SEND_BUF_SIZE
            /\ rc >= 0
            /\ decoded
            /\ rsp_error = KM_ERROR_OK
    /\ \A r \in (0 - MaxErrno) .. (0 - 1) : translate_error(r) # KM_ERROR_OK

\* Send has returned KM_ERROR_OK for a request that fills send_buf, the
\* transport having returned a positive code
C23_Witness ==
    /\ pc = "ready" /\ last_op = "Send"
    /\ send_exit = "ok" /\ send_ret = KM_ERROR_OK
    /\ req_size = SEND_BUF_SIZE
    /\ rc > 0 /\ decoded /\ rsp_error = KM_ERROR_OK

(* ---------------- C24 ---------------- *)

\* C24: when trusty_keymaster_call has reported a response size of no more
\* than RECV_BUF_SIZE, the range Send handed to Deserialize, from msg->payload
\* to rsp_size bytes after it, ends inside recv_buf.
C24_DecodeRangeInside ==
    (Answered /\ rsp_size <= RECV_BUF_SIZE) =>
        /\ DecodeBegin <= RECV_BUF_SIZE
        /\ DecodeEnd(rsp_size) <= RECV_BUF_SIZE

(* ---------------- C25 ---------------- *)

\* the directives of a file and line with a path, as EndFile meets them
Loaded == [i \in DOMAIN attempts |->
            [file |-> attempts[i].by, line |-> attempts[i].line,
             import |-> attempts[i].import]]

\* how often x is in the sequence s
Count(s, x) == Cardinality({i \in DOMAIN s : s[i] = x})

\* C25: while an EndFile is at its loop imports_ holds nothing of its list, so
\* every call of ParseConfig is made by the EndFile of the file that holds the
\* directive, and no directive is loaded more often than it was accepted; when
\* the outermost EndFile has returned imports_ is empty and every directive
\* accepted has been loaded exactly once.
C25_LoadedByOwnEndFile ==
    /\ (frames # << >> /\ Top.phase = "endfile") => imports_ = << >>
    /\ \A i \in DOMAIN Loaded : Count(Loaded, Loaded[i]) <= Count(directives, Loaded[i])
    /\ frames = << >> =>
        /\ imports_ = << >>
        /\ Len(attempts) = Len(directives)
        /\ \A i \in DOMAIN directives :
                Count(Loaded, directives[i]) = Count(directives, directives[i])

\* the outermost EndFile has returned after an imported file queued and
\* loaded an import of its own
C25_Witness ==
    /\ frames = << >>
    /\ Len(directives) >= 2
    /\ \E i \in DOMAIN attempts : attempts[i].by # "/init.rc"
    /\ \E i \in DOMAIN attempts : attempts[i].by = "/init.rc"

(* ---------------- C26 ---------------- *)

\* the calls of ParseConfig that returned false, in order
FailedImports == SelectSeq(attempts, LAMBDA a : ~a.ok)

\* C26: every line EndFile has logged names the file whose EndFile made the
\* failing call, which is the file that holds the directive (C25), and the
\* line of the directive in that file.
C26_LoggedWhereDirectiveIs ==
    /\ Len(ilog) = Len(FailedImports)
    /\ \A i \in DOMAIN ilog :
        /\ ilog[i].file = FailedImports[i].by
        /\ ilog[i].line = FailedImports[i].line

====
